---------------------------- MODULE Spec2Model ----------------------------
(***************************************************************************)
(* Seat reservation and scheduling core of the movie-theater booking       *)
(* backend: the Schedule controller (create / update / delete with the     *)
(* room conflict query) and the reservation ledger formed by the Ticket    *)
(* and Booking models (insert under the declared indexes, cancel, the TTL  *)
(* indexes that remove documents).                                         *)
(*                                                                         *)
(* The specifications of the module:                                      *)
(*   SpecSched, SpecSchedOrdered  the schedule controller, one request     *)
(*              per step (Ordered: only intervals with start < end;        *)
(*              SpecSchedUpdate keeps what updateSchedule read);           *)
(*   SpecSeats  the reservation ledger over every showtime and seat set;   *)
(*   SpecLedger the reservation ledger with concurrent handlers, cancel    *)
(*              split at its awaited save so that requests interleave;     *)
(*   SpecPricing the totals kept by the pre-save hooks of one document.    *)
(***************************************************************************)
EXTENDS Integers, FiniteSets, Sequences, TLC

VARIABLES
    schedules,   \* Schedule collection: id -> document or NoDoc
    schedResp,   \* last response of the schedule controller
    schedSeen,   \* the document updateSchedule's findById read (kept by
                 \* UpdateScheduleSeen only), NoDoc otherwise
    schedReq,    \* per schedule request handler: the request whose conflict
                 \* query has passed and whose write is still to come
    docs,        \* Ticket and Booking collections: id -> document or NoDoc
    nextId,      \* next _id handed to a new reservation document
    now,         \* wall clock, in minutes
    seatIndexBuilt, \* whether the server built the Ticket seat index
    pc,          \* per request handler: position inside cancel
    loaded,      \* per request handler: the in-memory document instance
    resResp,     \* last response of a reservation operation
    order,       \* one Booking or Ticket document seen through its pricing fields
    orderResp,   \* outcome of the last save of that document
    roomDoc,     \* one Room document: rows, seatsPerRow, capacity and seats
    roomResp     \* outcome of the last save of that room

schedVars == <<schedules, schedResp, schedSeen, schedReq>>
resVars == <<docs, nextId, now, seatIndexBuilt, pc, loaded, resResp>>
priceVars == <<order, orderResp>>
roomVars == <<roomDoc, roomResp>>
vars == <<schedules, schedResp, schedSeen, schedReq, docs, nextId, now, seatIndexBuilt, pc, loaded, resResp,
          order, orderResp, roomDoc, roomResp>>

NoDoc == [exists |-> FALSE]
---------------------------------------------------------------------------
(* Bounds *)

MaxSlot == 2
MaxDocs == 2
MaxTicks == 1
TickMinutes == 15
MaxRows == 27
MaxSeatsPerRow == 3

---------------------------------------------------------------------------
(* Catalog (external collaborator): what findById answers *)

Movies == {"M1"}
Theaters == {"T1", "T2"}
Rooms == {"R1", "R2"}
RoomTheater == [r \in Rooms |-> IF r = "R1" THEN "T1" ELSE "T2"]

MovieIds == Movies \cup {"M9"}
TheaterIds == Theaters \cup {"T9"}
RoomIds == Rooms \cup {"R9"}

\* The _ids the Schedule collection hands out, in this order
SchedIds == {1, 2}
Slots == 0..MaxSlot
Prices == {100}

---------------------------------------------------------------------------
(* Schedule controller.  A schedule document carries movie, theater, room, *)
(* startTime, endTime, price and isActive; the display flags is3d,         *)
(* hasSubtitles and isDubbed are copied like price and read by no guard,   *)
(* so price stands for them.                                               *)

ExistingSchedules == {i \in SchedIds : schedules[i].exists}

\* The conflict filter with both comparisons closed: touching intervals collide.
ConflictFilterClosed(s, room, start, end) ==
    /\ s.room = room
    /\ s.startTime <= end
    /\ s.endTime >= start

\* { room, $or: [{ startTime: { $lt: end }, endTime: { $gt: start } }] }
ConflictFilter(s, room, start, end) ==
    /\ s.room = room
    /\ s.startTime < end
    /\ s.endTime > start

\* Schedule.findOne(filter) of createSchedule: some document matches
CreateConflict(room, start, end) ==
    \E i \in ExistingSchedules : ConflictFilter(schedules[i], room, start, end)

\* The conflict query without the _id exclusion
UpdateConflictIncludingSelf(id, room, start, end) ==
    \E i \in ExistingSchedules : ConflictFilter(schedules[i], room, start, end)

\* Schedule.findOne({ _id: { $ne: schedule._id }, room, ... }) of updateSchedule
UpdateConflict(id, room, start, end) ==
    \E i \in ExistingSchedules \ {id} : ConflictFilter(schedules[i], room, start, end)

\* Request handlers of the schedule controller that may run at once
Handlers == {"h1", "h2"}
NoReq == [op |-> "none"]

FreeSchedId == CHOOSE i \in SchedIds : ~schedules[i].exists /\
                   \A j \in SchedIds : j < i => schedules[j].exists

SchedReply(op, status, id) == [op |-> op, status |-> status, id |-> id]

\* new Schedule({...}) is given no isActive: the stored document carries the
\* schema default, taken here as active.
createSchedule(movieId, theaterId, roomId, startTime, endTime, price) ==
    IF movieId \notin Movies THEN
        /\ schedResp' = SchedReply("createSchedule", 404, 0)
        /\ UNCHANGED schedules
    ELSE IF theaterId \notin Theaters THEN
        /\ schedResp' = SchedReply("createSchedule", 404, 0)
        /\ UNCHANGED schedules
    ELSE IF ~(roomId \in Rooms /\ RoomTheater[roomId] = theaterId) THEN
        /\ schedResp' = SchedReply("createSchedule", 404, 0)
        /\ UNCHANGED schedules
    ELSE IF CreateConflict(roomId, startTime, endTime) THEN
        /\ schedResp' = SchedReply("createSchedule", 400, 0)
        /\ UNCHANGED schedules
    ELSE
        /\ schedules' = [schedules EXCEPT ![FreeSchedId] =
              [exists |-> TRUE, movie |-> movieId, theater |-> theaterId,
               room |-> roomId, startTime |-> startTime, endTime |-> endTime,
               price |-> price, isActive |-> TRUE]]
        /\ schedResp' = SchedReply("createSchedule", 201, FreeSchedId)

\* Requests of POST /: every interval with the references that resolve, and
\* one interval with each combination of references that does not.
RefsResolve(movieId, theaterId, roomId) ==
    /\ movieId \in Movies
    /\ theaterId \in Theaters
    /\ roomId \in Rooms
    /\ RoomTheater[roomId] = theaterId

CreateRequests ==
    {q \in [movieId : MovieIds, theaterId : TheaterIds, roomId : RoomIds,
            startTime : Slots, endTime : Slots, price : Prices] :
        \/ RefsResolve(q.movieId, q.theaterId, q.roomId)
        \/ (q.startTime = 0 /\ q.endTime = 1 /\ q.price = 100)}

CreateSchedule ==
    /\ ExistingSchedules # SchedIds
    /\ \E q \in CreateRequests :
          createSchedule(q.movieId, q.theaterId, q.roomId,
                         q.startTime, q.endTime, q.price)
    /\ schedSeen' = NoDoc
    /\ UNCHANGED <<schedReq, resVars, priceVars, roomVars>>

\* The request body of PUT /:id: every field is optional; `has` lists the
\* fields the body carries (req.body[f] !== undefined), the others are unread.
\* The fields the conflict check reads come in every combination; price and
\* isActive, which no guard reads, come alone.
BodyFields == {"startTime", "endTime", "roomId", "price", "isActive"}
BodyShapes == SUBSET {"startTime", "endTime", "roomId"} \cup {{"price"}, {"isActive"}}
UpdateBodies ==
    {b \in [has : BodyShapes, startTime : Slots, endTime : Slots,
            roomId : Rooms, price : Prices, isActive : BOOLEAN] :
        /\ "startTime" \notin b.has => b.startTime = 0
        /\ "endTime" \notin b.has => b.endTime = 0
        /\ "roomId" \notin b.has => b.roomId = "R1"
        /\ "price" \notin b.has => b.price = 100
        /\ "isActive" \notin b.has => b.isActive = TRUE}

Given(body, field, old) == IF field \in body.has THEN body[field] ELSE old

\* An update that also moves the schedule to the room of the body
updateScheduleMovingRoom(id, body) ==
    IF ~schedules[id].exists THEN
        /\ schedResp' = SchedReply("updateSchedule", 404, id)
        /\ UNCHANGED schedules
    ELSE
        LET schedule == schedules[id]
            checks == body.has \cap {"startTime", "endTime", "roomId"} # {}
            start == Given(body, "startTime", schedule.startTime)
            end == Given(body, "endTime", schedule.endTime)
            room == Given(body, "roomId", schedule.room)
        IN  IF checks /\ UpdateConflict(id, room, start, end) THEN
                /\ schedResp' = SchedReply("updateSchedule", 400, id)
                /\ UNCHANGED schedules
            ELSE
                /\ schedules' = [schedules EXCEPT ![id] =
                      [schedule EXCEPT
                         !.room = room,
                         !.startTime = Given(body, "startTime", schedule.startTime),
                         !.endTime = Given(body, "endTime", schedule.endTime),
                         !.price = Given(body, "price", schedule.price),
                         !.isActive = Given(body, "isActive", schedule.isActive)]]
                /\ schedResp' = SchedReply("updateSchedule", 200, id)

updateSchedule(id, body) ==
    IF ~schedules[id].exists THEN
        /\ schedResp' = SchedReply("updateSchedule", 404, id)
        /\ UNCHANGED schedules
    ELSE
        LET schedule == schedules[id]
            checks == body.has \cap {"startTime", "endTime", "roomId"} # {}
            start == Given(body, "startTime", schedule.startTime)
            end == Given(body, "endTime", schedule.endTime)
            room == Given(body, "roomId", schedule.room)
        IN  IF checks /\ UpdateConflict(id, room, start, end) THEN
                /\ schedResp' = SchedReply("updateSchedule", 400, id)
                /\ UNCHANGED schedules
            ELSE
                \* allowedUpdates holds no room: only the listed fields are $set
                /\ schedules' = [schedules EXCEPT ![id] =
                      [schedule EXCEPT
                         !.startTime = Given(body, "startTime", schedule.startTime),
                         !.endTime = Given(body, "endTime", schedule.endTime),
                         !.price = Given(body, "price", schedule.price),
                         !.isActive = Given(body, "isActive", schedule.isActive)]]
                /\ schedResp' = SchedReply("updateSchedule", 200, id)

\* A missing schedule answers 404 whatever the body: one body stands for all.
UpdateSchedule ==
    /\ \E id \in SchedIds, body \in UpdateBodies :
          /\ schedules[id].exists \/ body.has = {}
          /\ updateSchedule(id, body)
    /\ schedSeen' = NoDoc
    /\ UNCHANGED <<schedReq, resVars, priceVars, roomVars>>

\* Booking is not imported by the controller: once the schedule is found,
\* Booking.countDocuments throws a ReferenceError, the catch answers 500 and
\* schedule.remove() is never reached.
deleteSchedule(id) ==
    IF ~schedules[id].exists THEN
        /\ schedResp' = SchedReply("deleteSchedule", 404, id)
        /\ UNCHANGED schedules
    ELSE
        /\ schedResp' = SchedReply("deleteSchedule", 500, id)
        /\ UNCHANGED schedules

DeleteSchedule ==
    /\ \E id \in SchedIds : deleteSchedule(id)
    /\ schedSeen' = NoDoc
    /\ UNCHANGED <<schedReq, resVars, priceVars, roomVars>>

SchedInit ==
    /\ schedules = [i \in SchedIds |-> NoDoc]
    /\ schedResp = SchedReply("none", 0, 0)
    /\ schedSeen = NoDoc
    /\ schedReq = [h \in Handlers |-> NoReq]

\* The same requests, kept to those whose resulting interval has start < end
CreateScheduleOrdered ==
    /\ ExistingSchedules # SchedIds
    /\ \E q \in CreateRequests :
          /\ q.startTime < q.endTime
          /\ createSchedule(q.movieId, q.theaterId, q.roomId,
                            q.startTime, q.endTime, q.price)
    /\ schedSeen' = NoDoc
    /\ UNCHANGED <<schedReq, resVars, priceVars, roomVars>>

UpdateScheduleOrdered ==
    /\ \E id \in SchedIds, body \in UpdateBodies :
          /\ schedules[id].exists \/ body.has = {}
          /\ schedules[id].exists =>
                Given(body, "startTime", schedules[id].startTime)
                   < Given(body, "endTime", schedules[id].endTime)
          /\ updateSchedule(id, body)
    /\ schedSeen' = NoDoc
    /\ UNCHANGED <<schedReq, resVars, priceVars, roomVars>>

\* getAvailableTimeSlots.  One unit of time is the 30-minute step of the
\* sweep; the operating window opens at OpenSlot (09:00) and closes at
\* CloseSlot (23:00), and every instant of the model lies in the selected day.
OpenSlot == 0
CloseSlot == MaxSlot

\* parseInt(duration): the handler does not consult validationResult, so any
\* integer goes through, 0 included.
Durations == 0..MaxSlot

\* Schedule.find({ room, $or: [start in day, end in day, spanning the day] })
scheduledShows(roomId) ==
    {i \in ExistingSchedules :
        /\ schedules[i].room = roomId
        /\ \/ (schedules[i].startTime >= OpenSlot /\ schedules[i].startTime <= CloseSlot)
           \/ (schedules[i].endTime >= OpenSlot /\ schedules[i].endTime <= CloseSlot)
           \/ (schedules[i].startTime <= OpenSlot /\ schedules[i].endTime >= CloseSlot)}

\* while (currentTime < closeTime) { if (slotEnd <= closeTime) push; += 30 }
timeSlots(durationMinutes) ==
    {[start |-> s, end |-> s + durationMinutes] :
        s \in {x \in OpenSlot..CloseSlot :
                  x < CloseSlot /\ x + durationMinutes <= CloseSlot}}

\* The test of the filter callback
slotTaken(slot, show) ==
    \/ (slot.start >= show.startTime /\ slot.start < show.endTime)
    \/ (slot.end > show.startTime /\ slot.end <= show.endTime)
    \/ (slot.start <= show.startTime /\ slot.end >= show.endTime)

getAvailableTimeSlots(roomId, durationMinutes) ==
    {slot \in timeSlots(durationMinutes) :
        ~\E i \in scheduledShows(roomId) : slotTaken(slot, schedules[i])}

\* updateSchedule on intervals with start < end, keeping the document it
\* read for later comparison
UpdateScheduleSeen ==
    /\ \E id \in SchedIds, body \in UpdateBodies :
          /\ schedules[id].exists \/ body.has = {}
          /\ schedules[id].exists =>
                Given(body, "startTime", schedules[id].startTime)
                   < Given(body, "endTime", schedules[id].endTime)
          /\ updateSchedule(id, body)
          /\ schedSeen' = schedules[id]
    /\ UNCHANGED <<schedReq, resVars, priceVars, roomVars>>

\* Concurrent requests.  Each await of a handler is a point where another
\* request may run: the conflict query (with the lookups before it) is one
\* step, the write that follows it another.  The requests are those for
\* room R1 with start < end; an update carries startTime, endTime or both.
ConcurrentCreates ==
    {q \in CreateRequests :
        /\ q.startTime < q.endTime
        /\ q.theaterId = "T1"
        /\ q.roomId = "R1"}

ConcurrentBodies ==
    {b \in UpdateBodies : b.has # {} /\ b.has \subseteq {"startTime", "endTime"}}

PendingCreates == {h \in Handlers : schedReq[h].op = "create"}

\* createSchedule up to and including Schedule.findOne(conflict filter)
CreateQuery(h) ==
    /\ schedReq[h] = NoReq
    /\ Cardinality(ExistingSchedules) + Cardinality(PendingCreates)
          < Cardinality(SchedIds)
    /\ \E q \in ConcurrentCreates :
          IF ~RefsResolve(q.movieId, q.theaterId, q.roomId) THEN
              /\ schedResp' = SchedReply("createSchedule", 404, 0)
              /\ UNCHANGED schedReq
          ELSE IF CreateConflict(q.roomId, q.startTime, q.endTime) THEN
              /\ schedResp' = SchedReply("createSchedule", 400, 0)
              /\ UNCHANGED schedReq
          ELSE
              /\ schedReq' = [schedReq EXCEPT ![h] =
                    [op |-> "create", movieId |-> q.movieId,
                     theaterId |-> q.theaterId, roomId |-> q.roomId,
                     startTime |-> q.startTime, endTime |-> q.endTime,
                     price |-> q.price]]
              /\ UNCHANGED schedResp
    /\ UNCHANGED <<schedules, schedSeen, resVars, priceVars, roomVars>>

\* new Schedule({...}).save() and the response
CreateWrite(h) ==
    /\ schedReq[h].op = "create"
    /\ LET q == schedReq[h]
       IN  schedules' = [schedules EXCEPT ![FreeSchedId] =
              [exists |-> TRUE, movie |-> q.movieId, theater |-> q.theaterId,
               room |-> q.roomId, startTime |-> q.startTime,
               endTime |-> q.endTime, price |-> q.price, isActive |-> TRUE]]
    /\ schedResp' = SchedReply("createSchedule", 201, FreeSchedId)
    /\ schedReq' = [schedReq EXCEPT ![h] = NoReq]
    /\ UNCHANGED <<schedSeen, resVars, priceVars, roomVars>>

\* updateSchedule up to and including its conflict query, on the document
\* findById returned
UpdateQuery(h) ==
    /\ schedReq[h] = NoReq
    /\ \E id \in SchedIds, body \in ConcurrentBodies :
          IF ~schedules[id].exists THEN
              /\ body.has = {"startTime"} /\ body.startTime = 0
              /\ schedResp' = SchedReply("updateSchedule", 404, id)
              /\ UNCHANGED schedReq
          ELSE
              LET schedule == schedules[id]
                  start == Given(body, "startTime", schedule.startTime)
                  end == Given(body, "endTime", schedule.endTime)
                  room == Given(body, "roomId", schedule.room)
              IN  /\ start < end
                  /\ IF UpdateConflict(id, room, start, end) THEN
                         /\ schedResp' = SchedReply("updateSchedule", 400, id)
                         /\ UNCHANGED schedReq
                     ELSE
                         /\ schedReq' = [schedReq EXCEPT ![h] =
                               [op |-> "update", id |-> id, body |-> body]]
                         /\ UNCHANGED schedResp
    /\ UNCHANGED <<schedules, schedSeen, resVars, priceVars, roomVars>>

\* Schedule.findByIdAndUpdate(id, { $set: updates }): the fields the body
\* carries are set on the document as it is stored by then
UpdateWrite(h) ==
    /\ schedReq[h].op = "update"
    /\ LET id == schedReq[h].id
           body == schedReq[h].body
       IN  /\ schedules' = [schedules EXCEPT ![id] =
                 [@ EXCEPT
                    !.startTime = Given(body, "startTime", @),
                    !.endTime = Given(body, "endTime", @),
                    !.price = Given(body, "price", @),
                    !.isActive = Given(body, "isActive", @)]]
           /\ schedResp' = SchedReply("updateSchedule", 200, id)
    /\ schedReq' = [schedReq EXCEPT ![h] = NoReq]
    /\ UNCHANGED <<schedSeen, resVars, priceVars, roomVars>>

---------------------------------------------------------------------------
(* Reservation ledger: the Ticket and Booking collections.                 *)
(*                                                                         *)
(* A document carries the fields the lifecycle reads or writes: showtime,  *)
(* seats (the set of seats.code), status, payment.status, the TTL date     *)
(* (Ticket.pendingExpiresAt, Booking.expiresAt), qrCode and the three      *)
(* cancellation fields.                                                    *)

Showtimes == {"S1", "S2"}
SeatCodes == {"A1", "A2"}
SeatSets == SUBSET SeatCodes \ {{}}
Procs == {"p1", "p2"}
Reasons == {"changed plans"}
DocIds == 1..MaxDocs

NoTime == 0 - 1
NoQr == 0
NoUser == "none"
NoReason == "none"
NoLoad == [id |-> 0]

\* Ticket.pendingExpiresAt default: Date.now() + 10*60*1000
TicketHoldMinutes == 10
\* Booking.expiresAt default: date.getMinutes() + 15
BookingHoldMinutes == 15
\* index({ createdAt: 1 }, { expireAfterSeconds: 30 * 24 * 60 * 60 })
RetentionMinutes == 43200

Hold(kind) == IF kind = "Ticket" THEN TicketHoldMinutes ELSE BookingHoldMinutes

CreatedAt(d) == d.expiresAt - Hold(d.kind)

ExistingDocs == {i \in DocIds : docs[i].exists}

NewDoc(kind, showtime, seats, qr) ==
    [exists |-> TRUE, kind |-> kind, showtime |-> showtime, seats |-> seats,
     status |-> "pending", payStatus |-> "pending",
     expiresAt |-> now + Hold(kind), qrCode |-> qr,
     cancelledBy |-> NoUser, cancelledAt |-> NoTime,
     cancellationReason |-> NoReason]

ResReply(op, result, id, showtime, seats) ==
    [op |-> op, result |-> result, id |-> id, showtime |-> showtime, seats |-> seats]

\* ticketSchema.index({ scheduleId: 1, 'seats.code': 1 }, { unique: true, ... }):
\* one key per element of seats.  The schema has no scheduleId path (the
\* schedule is stored under showtime), so the first component of every key
\* is the missing-field value.
SeatIndexKeys(d) == {<<"null", c>> : c \in d.seats}

\* partialFilterExpression: { status: { $ne: 'cancelled' } }
InSeatIndex(d) == d.exists /\ d.kind = "Ticket" /\ d.status # "cancelled"

\* The unique index rejects a document one of whose keys is already held by
\* another indexed document.  The index exists only if the server accepted
\* its definition when the model was initialised.
SeatIndexRejects(id, d) ==
    /\ seatIndexBuilt
    /\ InSeatIndex(d)
    /\ \E j \in DocIds \ {id} :
          InSeatIndex(docs[j]) /\ SeatIndexKeys(docs[j]) \cap SeatIndexKeys(d) # {}

\* The seats held by the indexed documents
Taken(d) ==
    UNION {docs[j].seats : j \in {k \in DocIds : InSeatIndex(docs[k])}}

\* An insert that, on a duplicate key, still stores the seats that were free
insertTicketPartial(showtime, seats) ==
    LET d == NewDoc("Ticket", showtime, seats, nextId)
    IN  IF SeatIndexRejects(nextId, d) THEN
            /\ resResp' = ResReply("createTicket", "E11000", 0, showtime, seats)
            /\ docs' = IF seats \ Taken(d) = {} THEN docs
                       ELSE [docs EXCEPT ![nextId] =
                               [d EXCEPT !.seats = seats \ Taken(d)]]
            /\ nextId' = IF seats \ Taken(d) = {} THEN nextId ELSE nextId + 1
        ELSE
            /\ docs' = [docs EXCEPT ![nextId] = d]
            /\ nextId' = nextId + 1
            /\ resResp' = ResReply("createTicket", "ok", nextId, "none", {})

\* new Ticket({...}).save(): the pre-save hook sets qrCode = `TICKET-${_id}`,
\* then the insert goes through the unique indexes as one document.
insertTicket(showtime, seats) ==
    LET d == NewDoc("Ticket", showtime, seats, nextId)
    IN  IF SeatIndexRejects(nextId, d) THEN
            /\ resResp' = ResReply("createTicket", "E11000", 0, showtime, seats)
            /\ UNCHANGED <<docs, nextId>>
        ELSE
            /\ docs' = [docs EXCEPT ![nextId] = d]
            /\ nextId' = nextId + 1
            /\ resResp' = ResReply("createTicket", "ok", nextId, "none", {})

CreateTicket(showtimes, seatSets) ==
    /\ nextId \in DocIds
    /\ \E showtime \in showtimes, seats \in seatSets : insertTicket(showtime, seats)
    /\ UNCHANGED <<now, seatIndexBuilt, pc, loaded>>
    /\ UNCHANGED <<schedVars, priceVars, roomVars>>

\* new Booking({...}).save(): the Booking schema declares no index on seats;
\* qrCode stays unset (sparse index).
insertBooking(showtime, seats) ==
    /\ docs' = [docs EXCEPT ![nextId] = NewDoc("Booking", showtime, seats, NoQr)]
    /\ nextId' = nextId + 1
    /\ resResp' = ResReply("createBooking", "ok", nextId, "none", {})

CreateBooking(showtimes, seatSets) ==
    /\ nextId \in DocIds
    /\ \E showtime \in showtimes, seats \in seatSets : insertBooking(showtime, seats)
    /\ UNCHANGED <<now, seatIndexBuilt, pc, loaded>>
    /\ UNCHANGED <<schedVars, priceVars, roomVars>>


\* The synchronous part of cancel on a loaded Ticket: the status check and
\* the assignments to the in-memory instance.  `seen` is the status the
\* instance was loaded with; `refund` says whether payment.status was
\* assigned (a Ticket's cancel never assigns it).
ticketCancelCheck(doc, id, userId, reason) ==
    IF doc.status = "cancelled" THEN NoLoad
    ELSE [id |-> id, seen |-> doc.status, refund |-> FALSE,
          by |-> userId, at |-> now, reason |-> reason]

\* The same for a Booking: a confirmed booking whose payment completed gets
\* payment.status = 'refunded'.
bookingCancelCheck(doc, id, userId, reason) ==
    IF doc.status = "cancelled" THEN NoLoad
    ELSE [id |-> id, seen |-> doc.status,
          refund |-> (doc.status = "confirmed" /\ doc.payStatus = "completed"),
          by |-> userId, at |-> now, reason |-> reason]

cancelCheck(doc, id, userId, reason) ==
    IF doc.kind = "Ticket" THEN ticketCancelCheck(doc, id, userId, reason)
    ELSE bookingCancelCheck(doc, id, userId, reason)

\* A handler loads the document and calls cancel(userId, reason) on it, up
\* to the awaited save.
CancelBegin(p) ==
    /\ pc[p] = "idle"
    /\ \E id \in ExistingDocs, reason \in Reasons :
          LET inst == cancelCheck(docs[id], id, p, reason)
          IN  IF inst = NoLoad THEN
                  /\ resResp' = ResReply("cancel", "already cancelled", id, "none", {})
                  /\ UNCHANGED <<pc, loaded>>
              ELSE
                  /\ loaded' = [loaded EXCEPT ![p] = inst]
                  /\ pc' = [pc EXCEPT ![p] = "saving"]
                  /\ UNCHANGED resResp
    /\ UNCHANGED <<docs, nextId, now, seatIndexBuilt>>
    /\ UNCHANGED <<schedVars, priceVars, roomVars>>

\* A save of the cancellation that also rewrites qrCode
saveCancelledResettingQr(inst) ==
    IF docs[inst.id].exists THEN
        /\ docs' = [docs EXCEPT ![inst.id] =
              [@ EXCEPT !.status = "cancelled", !.cancelledBy = inst.by,
                        !.cancelledAt = inst.at, !.cancellationReason = inst.reason,
                        !.payStatus = IF inst.refund THEN "refunded" ELSE @,
                        !.qrCode = NoQr]]
        /\ resResp' = ResReply("cancel", "ok", inst.id, "none", {})
    ELSE
        /\ resResp' = ResReply("cancel", "DocumentNotFound", inst.id, "none", {})
        /\ UNCHANGED docs

\* await this.save() of an existing document: the modified paths are $set on
\* the document with this _id, whatever its stored status is by then; a
\* document that is gone makes save() throw.
saveCancelled(inst) ==
    IF docs[inst.id].exists THEN
        /\ docs' = [docs EXCEPT ![inst.id] =
              [@ EXCEPT !.status = "cancelled", !.cancelledBy = inst.by,
                        !.cancelledAt = inst.at, !.cancellationReason = inst.reason,
                        !.payStatus = IF inst.refund THEN "refunded" ELSE @]]
        /\ resResp' = ResReply("cancel", "ok", inst.id, "none", {})
    ELSE
        /\ resResp' = ResReply("cancel", "DocumentNotFound", inst.id, "none", {})
        /\ UNCHANGED docs

CancelSave(p) ==
    /\ pc[p] = "saving"
    /\ saveCancelled(loaded[p])
    /\ pc' = [pc EXCEPT ![p] = "idle"]
    /\ loaded' = [loaded EXCEPT ![p] = NoLoad]
    /\ UNCHANGED <<nextId, now, seatIndexBuilt>>
    /\ UNCHANGED <<schedVars, priceVars, roomVars>>

\* TTL indexes (expireAfterSeconds: 0 on Ticket.pendingExpiresAt and on
\* Booking.expiresAt, 30 days on createdAt): the server's monitor removes a
\* document once the indexed date has passed.  No filter on status.
ttlDue(d) ==
    \/ d.expiresAt <= now
    \/ CreatedAt(d) + RetentionMinutes <= now

TTLDelete ==
    /\ \E id \in ExistingDocs :
          /\ ttlDue(docs[id])
          /\ docs' = [docs EXCEPT ![id] = NoDoc]
    /\ UNCHANGED <<nextId, now, seatIndexBuilt, pc, loaded, resResp>>
    /\ UNCHANGED <<schedVars, priceVars, roomVars>>

Tick ==
    /\ now < MaxTicks * TickMinutes
    /\ now' = now + TickMinutes
    /\ UNCHANGED <<docs, nextId, seatIndexBuilt, pc, loaded, resResp>>
    /\ UNCHANGED <<schedVars, priceVars, roomVars>>

PaymentOutcomes == {"completed", "failed"}

\* A confirmation that only looks at the status
confirmPaymentIgnoringExpiry(id, outcome) ==
    IF ~docs[id].exists THEN
        /\ resResp' = ResReply("confirmPayment", "NotFound", id, "none", {})
        /\ UNCHANGED docs
    ELSE IF docs[id].status # "pending" THEN
        /\ resResp' = ResReply("confirmPayment", "InvalidState", id, "none", {})
        /\ UNCHANGED docs
    ELSE
        /\ docs' = [docs EXCEPT ![id] =
              [@ EXCEPT !.payStatus = outcome,
                        !.status = IF outcome = "completed" THEN "confirmed" ELSE @,
                        !.qrCode = IF outcome = "completed" /\ @ = NoQr THEN id ELSE @]]
        /\ resResp' = ResReply("confirmPayment", "ok", id, "none", {})

\* confirmPayment(reservationId, transactionId, status): legal only from a
\* pending reservation whose expiresAt has not passed; sets payment.status
\* and, on completed, moves to confirmed and assigns qrCode if unset.  One
\* atomic conditional update.
confirmPayment(id, outcome) ==
    IF ~docs[id].exists THEN
        /\ resResp' = ResReply("confirmPayment", "NotFound", id, "none", {})
        /\ UNCHANGED docs
    ELSE IF docs[id].status # "pending" \/ docs[id].expiresAt <= now THEN
        /\ resResp' = ResReply("confirmPayment", "InvalidState", id, "none", {})
        /\ UNCHANGED docs
    ELSE
        /\ docs' = [docs EXCEPT ![id] =
              [@ EXCEPT !.payStatus = outcome,
                        !.status = IF outcome = "completed" THEN "confirmed" ELSE @,
                        !.qrCode = IF outcome = "completed" /\ @ = NoQr THEN id ELSE @]]
        /\ resResp' = ResReply("confirmPayment", "ok", id, "none", {})

ConfirmPayment(outcomes) ==
    /\ \E id \in DocIds, outcome \in outcomes :
          /\ id < nextId
          /\ confirmPayment(id, outcome)
    /\ UNCHANGED <<nextId, now, seatIndexBuilt, pc, loaded>>
    /\ UNCHANGED <<schedVars, priceVars, roomVars>>

\* expireStale(): every pending reservation with expiresAt <= now becomes
\* expired, in one conditional bulk update.
expireStale ==
    docs' = [i \in DocIds |->
               IF docs[i].exists /\ docs[i].status = "pending"
                     /\ docs[i].expiresAt <= now
               THEN [docs[i] EXCEPT !.status = "expired"]
               ELSE docs[i]]

ExpireStale ==
    /\ expireStale
    /\ UNCHANGED <<nextId, now, seatIndexBuilt, pc, loaded, resResp>>
    /\ UNCHANGED <<schedVars, priceVars, roomVars>>

---------------------------------------------------------------------------
(* Pricing: the pre('save') hooks of Booking and Ticket and calculateTotals.*)
(* Amounts are integers; seat and combo prices are multiples of 100, so    *)
(* that subtotal * discountValue / 100 is exact.                           *)

NoOrder == [exists |-> FALSE]
NoMax == 0 - 1

\* voucher is a nested path: the object always exists, its fields may be
\* unset.  An unset discountValue reads like 0 in the hooks, an unset
\* minOrderValue is written 0, an unset maxDiscount NoMax.
NoVoucher ==
    [discountValue |-> 0, discountType |-> "fixed", maxDiscount |-> NoMax,
     minOrderValue |-> 0]

Voucher(value, type, max, minOrder) ==
    [discountValue |-> value, discountType |-> type, maxDiscount |-> max,
     minOrderValue |-> minOrder]

Vouchers ==
    {NoVoucher,
     Voucher(100, "fixed", NoMax, 0),
     Voucher(1000, "fixed", NoMax, 0),
     Voucher(100, "fixed", NoMax, 1000),
     Voucher(10, "percent", NoMax, 0),
     Voucher(50, "percent", 100, 0),
     Voucher(50, "percent", 0, 0),
     Voucher(150, "percent", NoMax, 0)}

SeatPriceLists == {<<100>>, <<100, 200>>}
ComboLists == {<< >>, <<[price |-> 100, quantity |-> 2]>>}
Taxes == {0, 10}
ServiceFees == {0, 5}
Kinds == {"Booking", "Ticket"}
PricingPaths == {"seats", "combos", "voucher", "tax", "serviceFee"}

Min(a, b) == IF a < b THEN a ELSE b
Max(a, b) == IF a > b THEN a ELSE b

RECURSIVE SumSeq(_)
SumSeq(s) == IF s = << >> THEN 0 ELSE Head(s) + SumSeq(Tail(s))

\* this.seats.reduce((sum, seat) => sum + (seat.price || 0), 0)
seatsSubtotal(seats) == SumSeq(seats)

\* this.combos.reduce((sum, combo) => sum + (combo.price * combo.quantity || 0), 0)
combosSubtotal(combos) ==
    SumSeq([i \in 1..Len(combos) |-> combos[i].price * combos[i].quantity])

\* let discount = 0; if (this.voucher && this.voucher.discountValue) {...}:
\* the cap is read only when maxDiscount is truthy (set and not 0).
voucherDiscount(voucher, subtotal) ==
    IF voucher.discountValue # 0 THEN
        IF voucher.discountType = "percent" THEN
            LET discount == (subtotal * voucher.discountValue) \div 100
            IN  IF voucher.maxDiscount # NoMax /\ voucher.maxDiscount # 0
                      /\ discount > voucher.maxDiscount
                THEN voucher.maxDiscount ELSE discount
        ELSE Min(voucher.discountValue, subtotal)
    ELSE 0

\* calculateTotals of both models
calculateTotals(o) ==
    LET subtotal == seatsSubtotal(o.seats) + combosSubtotal(o.combos)
        discount == voucherDiscount(o.voucher, subtotal)
    IN  [o EXCEPT !.subtotal = subtotal, !.discount = discount,
                  !.totalAmount = Max(0, subtotal - discount + o.tax + o.serviceFee)]

\* bookingSchema.pre('save'): totals are recomputed for a new document or
\* when seats or combos were modified.
bookingPreSave(o, isNew, modified) ==
    IF isNew \/ modified \cap {"seats", "combos"} # {}
    THEN calculateTotals(o) ELSE o

\* The first ticketSchema.pre('save') reads combo.qty, a path the combos of
\* ticketSchema do not have (they carry quantity): with any combo line the
\* subtotal it computes is NaN, which a Number path refuses.
inlineCastFails(o) == o.combos # << >>

\* The first ticketSchema.pre('save'): inline totals, without tax, service
\* fee or a lower bound.  When the NaN subtotal is refused, this.subtotal
\* still reads the previous value.
ticketInlineTotals(o, isNew, modified) ==
    IF isNew \/ modified \cap {"seats", "combos", "voucher"} # {} THEN
        LET subtotal == IF inlineCastFails(o) THEN o.subtotal
                        ELSE seatsSubtotal(o.seats)
            discount == voucherDiscount(o.voucher, subtotal)
        IN  [o EXCEPT !.subtotal = subtotal, !.discount = discount,
                      !.totalAmount = subtotal - discount]
    ELSE o

\* The third ticketSchema.pre('save'): calculateTotals under the Booking
\* condition (voucher is not in it).
ticketTotalsHook(o, isNew, modified) ==
    IF isNew \/ modified \cap {"seats", "combos"} # {}
    THEN calculateTotals(o) ELSE o

\* The hooks of a Ticket in registration order
ticketPreSave(o, isNew, modified) ==
    ticketTotalsHook(ticketInlineTotals(o, isNew, modified), isNew, modified)

preSave(o, isNew, modified) ==
    IF o.kind = "Ticket" THEN ticketPreSave(o, isNew, modified)
    ELSE bookingPreSave(o, isNew, modified)

\* Whether the inline hook of a Ticket ran into the refused NaN
castFailed(o, isNew, modified) ==
    /\ o.kind = "Ticket"
    /\ isNew \/ modified \cap {"seats", "combos", "voucher"} # {}
    /\ inlineCastFails(o)

\* Validation runs before the pre('save') hooks, on the document as the
\* caller left it: the required paths subtotal and totalAmount carry min 0.
validates(o) == o.subtotal >= 0 /\ o.totalAmount >= 0

OrderReply(op, result) == [op |-> op, result |-> result]

\* save() of a document: validation, the hooks, the write.  A cast failure
\* inside a hook leaves it to the library whether the write still happens.
saveOrder(o, isNew, modified) ==
    IF ~validates(o) THEN
        /\ orderResp' = OrderReply(IF isNew THEN "create" ELSE "save", "ValidationError")
        /\ UNCHANGED order
    ELSE
        \/ /\ order' = preSave(o, isNew, modified)
           /\ orderResp' = OrderReply(IF isNew THEN "create" ELSE "save", "ok")
        \/ /\ castFailed(o, isNew, modified)
           /\ orderResp' = OrderReply(IF isNew THEN "create" ELSE "save", "CastError")
           /\ UNCHANGED order

\* new Model({...}).save(): the caller supplies the required subtotal and
\* totalAmount (0 stands for any value: a new document's hooks overwrite
\* both before the write).
CreateOrderOf(kinds, seatLists, comboLists, vouchers) ==
    /\ ~order.exists
    /\ \E kind \in kinds, seats \in seatLists, combos \in comboLists,
          voucher \in vouchers, tax \in Taxes, serviceFee \in ServiceFees :
          saveOrder([exists |-> TRUE, kind |-> kind, seats |-> seats,
                     combos |-> combos, voucher |-> voucher, tax |-> tax,
                     serviceFee |-> serviceFee, subtotal |-> 0, discount |-> 0,
                     totalAmount |-> 0],
                    TRUE, {})
    /\ UNCHANGED <<schedVars, resVars, roomVars>>

CreateOrder == CreateOrderOf(Kinds, SeatPriceLists, ComboLists, Vouchers)

\* A later save that modified some of seats, combos, voucher, tax and
\* serviceFee.
SaveOrder ==
    /\ order.exists
    /\ \E modified \in SUBSET PricingPaths \ {{}},
          seats \in SeatPriceLists, combos \in ComboLists,
          voucher \in Vouchers, tax \in Taxes, serviceFee \in ServiceFees :
          /\ (seats # order.seats) <=> ("seats" \in modified)
          /\ (combos # order.combos) <=> ("combos" \in modified)
          /\ (voucher # order.voucher) <=> ("voucher" \in modified)
          /\ (tax # order.tax) <=> ("tax" \in modified)
          /\ (serviceFee # order.serviceFee) <=> ("serviceFee" \in modified)
          /\ saveOrder([order EXCEPT !.seats = seats, !.combos = combos,
                               !.voucher = voucher, !.tax = tax,
                               !.serviceFee = serviceFee],
                       FALSE, modified)
    /\ UNCHANGED <<schedVars, resVars, roomVars>>

\* The document is removed; another one may follow.
RemoveOrder ==
    /\ order.exists
    /\ order' = NoOrder
    /\ orderResp' = OrderReply("remove", "ok")
    /\ UNCHANGED <<schedVars, resVars, roomVars>>

PriceInit ==
    /\ order = NoOrder
    /\ orderResp = OrderReply("none", "none")

NextPricing == CreateOrder \/ SaveOrder \/ RemoveOrder

---------------------------------------------------------------------------
(* Room: the seat map generated by the pre('save') hook.  A seat code is   *)
(* the row letter followed by the column number; it is kept as the pair    *)
(* <<index of the letter in the alphabet, column number>>.                 *)

NoRoom == [exists |-> FALSE]

\* const alphabet = 'ABCDEFGHIJKLMNOPQRSTUVWXYZ'
AlphabetLength == 26
\* const vipRows = 2
vipRows == 2
\* capacity: max 500
MaxCapacity == 500

\* The nested loops of generateSeatMap, row by row; the k-th seat pushed is
\* in row (k - 1) div seatsPerRow, at column ((k - 1) mod seatsPerRow) + 1.
generateSeatMap(rows, seatsPerRow) ==
    [k \in 1..(rows * seatsPerRow) |->
        LET row == (k - 1) \div seatsPerRow
            col == ((k - 1) % seatsPerRow) + 1
        IN  [code |-> <<row % AlphabetLength, col>>,
             type |-> IF row < vipRows THEN "vip" ELSE "standard",
             status |-> "available",
             row |-> row,
             column |-> col - 1]]

\* roomSchema.pre('save')
roomPreSave(r, isNew, modified) ==
    IF isNew \/ modified \cap {"rows", "seatsPerRow"} # {}
    THEN [r EXCEPT !.seats = generateSeatMap(r.rows, r.seatsPerRow),
                   !.capacity = r.rows * r.seatsPerRow]
    ELSE r

\* Validation, which runs before the hook on the values the caller gave
roomValidates(r) ==
    /\ r.capacity >= 1
    /\ r.capacity <= MaxCapacity
    /\ r.rows >= 1
    /\ r.seatsPerRow >= 1

RoomReply(op, result, modified) == [op |-> op, result |-> result, modified |-> modified]

saveRoom(r, isNew, modified) ==
    IF ~roomValidates(r) THEN
        /\ roomResp' = RoomReply(IF isNew THEN "create" ELSE "save", "ValidationError", modified)
        /\ UNCHANGED roomDoc
    ELSE
        /\ roomDoc' = roomPreSave(r, isNew, modified)
        /\ roomResp' = RoomReply(IF isNew THEN "create" ELSE "save", "ok", modified)

RowCounts == 0..MaxRows
SeatsPerRowCounts == 0..MaxSeatsPerRow
Capacities == {0, 10}
RoomPaths == {"rows", "seatsPerRow", "capacity"}

\* new Room({...}).save(): the caller gives rows, seatsPerRow and the
\* required capacity.
CreateRoom ==
    /\ ~roomDoc.exists
    /\ \E rows \in RowCounts, seatsPerRow \in SeatsPerRowCounts,
          capacity \in Capacities :
          saveRoom([exists |-> TRUE, rows |-> rows, seatsPerRow |-> seatsPerRow,
                    capacity |-> capacity, seats |-> << >>],
                   TRUE, {})
    /\ UNCHANGED <<schedVars, resVars, priceVars>>

\* A later save that modified some of rows, seatsPerRow and capacity
SaveRoom ==
    /\ roomDoc.exists
    /\ \E modified \in SUBSET RoomPaths \ {{}},
          rows \in RowCounts, seatsPerRow \in SeatsPerRowCounts,
          capacity \in Capacities :
          /\ (rows # roomDoc.rows) <=> ("rows" \in modified)
          /\ (seatsPerRow # roomDoc.seatsPerRow) <=> ("seatsPerRow" \in modified)
          /\ ("capacity" \notin modified) => capacity = 10
          /\ ("capacity" \in modified) => capacity # roomDoc.capacity
          /\ saveRoom([roomDoc EXCEPT !.rows = rows, !.seatsPerRow = seatsPerRow,
                                      !.capacity = IF "capacity" \in modified
                                                   THEN capacity ELSE @],
                      FALSE, modified)
    /\ UNCHANGED <<schedVars, resVars, priceVars>>

RemoveRoom ==
    /\ roomDoc.exists
    /\ roomDoc' = NoRoom
    /\ roomResp' = RoomReply("remove", "ok", {})
    /\ UNCHANGED <<schedVars, resVars, priceVars>>

RoomInit ==
    /\ roomDoc = NoRoom
    /\ roomResp = RoomReply("none", "none", {})

NextRoom == CreateRoom \/ SaveRoom \/ RemoveRoom

---------------------------------------------------------------------------
(* Availability reads.  Every seat of the room has status 'available' (the *)
(* value generateSeatMap gives it) and the room holds the seats SeatCodes. *)

\* Booking.getAvailableSeats(showtimeId): the Showtime virtual `bookings`
\* refers to Ticket documents by their showtime; the populate match keeps
\* status confirmed or pending with payment.status other than refunded.
\* The result is given as the set of seat codes with isAvailable true.
bookingGetAvailableSeats(showtimeId) ==
    LET bookings == {i \in ExistingDocs :
                        /\ docs[i].kind = "Ticket"
                        /\ docs[i].showtime = showtimeId
                        /\ docs[i].status \in {"confirmed", "pending"}
                        /\ docs[i].payStatus # "refunded"}
        bookedSeats == UNION {docs[i].seats : i \in bookings}
    IN  SeatCodes \ bookedSeats

\* room.getAvailableSeats(showtimeId): Ticket.find({ showtime, status in
\* ['booked', 'confirmed'] }); the seat codes given status 'available'.
roomGetAvailableSeats(showtimeId) ==
    LET bookedTickets == {i \in ExistingDocs :
                             /\ docs[i].kind = "Ticket"
                             /\ docs[i].showtime = showtimeId
                             /\ docs[i].status \in {"booked", "confirmed"}}
        bookedSeats == UNION {docs[i].seats : i \in bookedTickets}
    IN  SeatCodes \ bookedSeats

\* getMovieAvailability: Booking.find({ showtime, status in ['confirmed',
\* 'pending'] }); availableSeats = room.capacity - sum of seats.length.
movieAvailableSeats(showtimeId) ==
    LET booked == [i \in DocIds |->
                      IF /\ docs[i].exists
                         /\ docs[i].kind = "Booking"
                         /\ docs[i].showtime = showtimeId
                         /\ docs[i].status \in {"confirmed", "pending"}
                      THEN Cardinality(docs[i].seats) ELSE 0]
    IN  Cardinality(SeatCodes) - SumSeq(booked)

ResInit ==
    /\ docs = [i \in DocIds |-> NoDoc]
    /\ nextId = 1
    /\ now = 0
    /\ seatIndexBuilt \in BOOLEAN
    /\ pc = [p \in Procs |-> "idle"]
    /\ loaded = [p \in Procs |-> NoLoad]
    /\ resResp = ResReply("none", "none", 0, "none", {})

Init == SchedInit /\ ResInit /\ PriceInit /\ RoomInit

\* Seat inventory: requests over every showtime and seat set, one handler
\* at a time, payments that complete.
NextSeats ==
    \/ CreateTicket(Showtimes, SeatSets)
    \/ CreateBooking(Showtimes, SeatSets)
    \/ CancelBegin("p1")
    \/ CancelSave("p1")
    \/ ConfirmPayment({"completed"})
    \/ ExpireStale
    \/ TTLDelete
    \/ Tick

SpecSeats == Init /\ [][NextSeats]_vars

\* Reservation lifecycle: concurrent handlers and both payment outcomes on
\* reservations of one seat of one showtime.
NextLedger ==
    \/ CreateTicket({"S1"}, {{"A1"}})
    \/ CreateBooking({"S1"}, {{"A1"}})
    \/ \E p \in Procs : CancelBegin(p)
    \/ \E p \in Procs : CancelSave(p)
    \/ ConfirmPayment(PaymentOutcomes)
    \/ ExpireStale
    \/ TTLDelete
    \/ Tick

SpecLedger == Init /\ [][NextLedger]_vars

SpecPricing == Init /\ [][NextPricing]_vars

SpecRoom == Init /\ [][NextRoom]_vars

\* Expiry: the ledger with one handler, where the mechanisms that act on a
\* lapsed hold keep running: the server's TTL monitor wakes up periodically,
\* and the sweeper calls expireStale on a fixed interval.
NextExpiry ==
    \/ CreateTicket({"S1"}, {{"A1"}})
    \/ CreateBooking({"S1"}, {{"A1"}})
    \/ CancelBegin("p1")
    \/ CancelSave("p1")
    \/ ConfirmPayment({"completed"})
    \/ ExpireStale
    \/ TTLDelete
    \/ Tick

SpecExpiry ==
    /\ Init
    /\ [][NextExpiry]_vars
    /\ WF_vars(TTLDelete)
    /\ WF_vars(ExpireStale)

InitSched == SchedInit /\ ResInit /\ PriceInit /\ RoomInit /\ seatIndexBuilt


NextSched == CreateSchedule \/ UpdateSchedule \/ DeleteSchedule

SpecSched == InitSched /\ [][NextSched]_vars

NextSchedOrdered == CreateScheduleOrdered \/ UpdateScheduleOrdered \/ DeleteSchedule

SpecSchedOrdered == InitSched /\ [][NextSchedOrdered]_vars

NextSchedUpdate == CreateScheduleOrdered \/ UpdateScheduleSeen \/ DeleteSchedule

SpecSchedUpdate == InitSched /\ [][NextSchedUpdate]_vars

\* The schedule controller next to stored reservations: a ticket of
\* showtime S1 and one reservation with its price snapshot
NextSchedFrame ==
    \/ CreateScheduleOrdered
    \/ UpdateScheduleSeen
    \/ CreateTicket({"S1"}, {{"A1"}})
    \/ CreateOrderOf({"Ticket"}, {<<100, 200>>}, {<< >>},
                     {Voucher(10, "percent", NoMax, 0)})

SpecSchedFrame == InitSched /\ [][NextSchedFrame]_vars

\* The schedule controller with two requests in flight
NextSchedConcurrent ==
    \/ \E h \in Handlers : CreateQuery(h)
    \/ \E h \in Handlers : CreateWrite(h)
    \/ \E h \in Handlers : UpdateQuery(h)
    \/ \E h \in Handlers : UpdateWrite(h)

SpecSchedConcurrent == InitSched /\ [][NextSchedConcurrent]_vars

---------------------------------------------------------------------------
(* Claims about the schedule controller *)

Overlapping(a, b) == a.startTime < b.endTime /\ b.startTime < a.endTime

\* C5: after any sequence of createSchedule, updateSchedule and deleteSchedule
\* calls, each atomic and each with start < end, no two schedules of the same
\* room have overlapping half-open intervals [startTime, endTime).
C5_NoRoomOverlap ==
    \A i \in ExistingSchedules, j \in ExistingSchedules :
        (i # j /\ schedules[i].room = schedules[j].room)
            => ~Overlapping(schedules[i], schedules[j])

\* C6: createSchedule for an existing room R of the given theater with
\* interval [s, e) answers the conflict error exactly when some stored
\* schedule of R has start < e and end > s; otherwise (touching intervals
\* included) the schedule is stored as requested; a rejected request stores
\* nothing.
C6_HalfOpenOverlapTest ==
    [][\A q \in CreateRequests :
          (/\ ExistingSchedules # SchedIds
           /\ createSchedule(q.movieId, q.theaterId, q.roomId,
                             q.startTime, q.endTime, q.price))
          => LET hit == \E i \in SchedIds :
                           /\ schedules[i].exists
                           /\ schedules[i].room = q.roomId
                           /\ schedules[i].startTime < q.endTime
                           /\ schedules[i].endTime > q.startTime
                 new == schedResp'.id
             IN  /\ schedResp'.status = 400 => hit
                 /\ (RefsResolve(q.movieId, q.theaterId, q.roomId) /\ hit)
                       => schedResp'.status = 400
                 /\ (RefsResolve(q.movieId, q.theaterId, q.roomId) /\ ~hit)
                       => /\ schedResp'.status = 201
                          /\ ~schedules[new].exists
                          /\ schedules'[new].exists
                          /\ schedules'[new].room = q.roomId
                          /\ schedules'[new].startTime = q.startTime
                          /\ schedules'[new].endTime = q.endTime
                 /\ schedResp'.status # 201 => schedules' = schedules
    ]_vars

\* A schedule was just accepted whose start equals the end of another
\* schedule of the same room.
C6_TouchingAccepted ==
    /\ schedResp.op = "createSchedule"
    /\ schedResp.status = 201
    /\ \E j \in ExistingSchedules \ {schedResp.id} :
          /\ schedules[j].room = schedules[schedResp.id].room
          /\ schedules[j].startTime < schedules[j].endTime
          /\ schedules[j].endTime = schedules[schedResp.id].startTime
          /\ schedules[schedResp.id].startTime < schedules[schedResp.id].endTime

---------------------------------------------------------------------------
(* Seat inventory and reservation lifecycle *)

\* An active reservation: pending and not yet expired, or confirmed.
Active(d) ==
    /\ d.exists
    /\ \/ d.status = "confirmed"
       \/ d.status = "pending" /\ d.expiresAt > now

LapsedPending(d) == d.exists /\ d.status = "pending" /\ d.expiresAt <= now

\* The step is a reservation-creation request answered with a duplicate-key
\* error.
RejectedCreate ==
    /\ resResp' # resResp
    /\ resResp'.op = "createTicket"
    /\ resResp'.result = "E11000"

\* C1: seat exclusivity.  No seat code belongs to two active reservations
\* of the same schedule.
C1_SeatExclusive ==
    \A i, j \in DocIds :
        (i # j /\ Active(docs[i]) /\ Active(docs[j])
              /\ docs[i].showtime = docs[j].showtime)
            => docs[i].seats \cap docs[j].seats = {}

\* C2: all-or-nothing claim.  A reservation-creation request that fails on a
\* held seat stores nothing (the reservations, and so the seat claims, are
\* what they were), and one that succeeds stores every requested seat.
C2_AllOrNothing ==
    [][ /\ RejectedCreate => (docs' = docs /\ nextId' = nextId)
        /\ \A showtime \in Showtimes, seats \in SeatSets :
              (nextId \in DocIds /\ insertTicket(showtime, seats)
                   /\ resResp'.result = "ok")
                => (docs'[nextId].seats = seats /\ docs'[nextId].showtime = showtime)
      ]_vars

\* A request for two seats was rejected while one of them had never been
\* held: the only reservation ever stored holds the other seat alone.
C2_RejectedWithFreeSeat ==
    /\ resResp.op = "createTicket"
    /\ resResp.result = "E11000"
    /\ nextId = 2
    /\ docs[1].exists
    /\ docs[1].seats \cap resResp.seats # {}
    /\ resResp.seats \ docs[1].seats # {}

\* C3: cross-schedule independence.  A reservation-creation request on a
\* schedule is rejected only if some reservation of that same schedule
\* holds one of the requested seats.
C3_RejectedOnlyByOwnSchedule ==
    [][ RejectedCreate =>
          \E j \in DocIds :
              /\ docs[j].exists
              /\ docs[j].showtime = resResp'.showtime
              /\ docs[j].seats \cap resResp'.seats # {}
      ]_vars

\* C4: release on expiry.  A reservation-creation request is rejected only
\* if an active reservation holds one of the requested seats: a pending
\* reservation whose hold window has elapsed blocks nothing.
C4_RejectedOnlyByActiveHold ==
    [][ RejectedCreate =>
          \E j \in DocIds :
              /\ Active(docs[j])
              /\ docs[j].seats \cap resResp'.seats # {}
      ]_vars

TerminalStatuses == {"cancelled", "refunded", "expired"}

\* C7: terminal states.  A reservation whose status is cancelled, refunded
\* or expired keeps that status for as long as it is stored.
C7_TerminalStatusKept ==
    [][ \A id \in DocIds :
          (docs[id].exists /\ docs[id].status \in TerminalStatuses)
            => (docs'[id].exists => docs'[id].status = docs[id].status)
      ]_vars

\* C8: late confirmation is rejected.  A pending reservation whose expiresAt
\* has passed is not confirmed by any step, and a payment confirmation for
\* it answers InvalidState and leaves the reservation as it was.
C8_LateConfirmationRejected ==
    [][ \A id \in DocIds :
          LapsedPending(docs[id]) =>
            /\ docs'[id].exists => docs'[id].status # "confirmed"
            /\ (resResp' # resResp /\ resResp'.op = "confirmPayment"
                    /\ resResp'.id = id)
                 => (resResp'.result = "InvalidState" /\ docs'[id] = docs[id])
      ]_vars

\* The last reply rejected a confirmation for a reservation that is still
\* pending with its hold window elapsed.
C8_LateConfirmationSeen ==
    /\ resResp.op = "confirmPayment"
    /\ resResp.result = "InvalidState"
    /\ LapsedPending(docs[resResp.id])

\* C9: expiry never touches confirmed reservations.  A confirmed reservation
\* stays stored, and leaves confirmed only by being cancelled.
C9_ConfirmedSurvivesExpiry ==
    [][ \A id \in DocIds :
          (docs[id].exists /\ docs[id].status = "confirmed")
            => /\ docs'[id].exists
               /\ docs'[id].status \in {"confirmed", "cancelled"}
      ]_vars

\* C10: atomic lifecycle transitions.  A handler's write takes effect only
\* if the reservation still has the status the handler read.
C10_WriteOnlyOnReadStatus ==
    [][ \A p \in Procs :
          (/\ pc[p] = "saving"
           /\ pc'[p] = "idle"
           /\ docs[loaded[p].id].exists
           /\ docs[loaded[p].id].status # loaded[p].seen)
            => docs' = docs
      ]_vars

---------------------------------------------------------------------------
(* Pricing *)

\* C11: total formula.  Every stored Booking or Ticket has
\* totalAmount = max(0, subtotal - discount + tax + serviceFee) and
\* subtotal = sum of seat prices + sum of combo price x quantity.
C11_TotalFormula ==
    order.exists =>
        /\ order.subtotal = seatsSubtotal(order.seats) + combosSubtotal(order.combos)
        /\ order.totalAmount =
              Max(0, order.subtotal - order.discount + order.tax + order.serviceFee)

\* C12: the stored totalAmount is never negative.
C12_TotalNotNegative == order.exists => order.totalAmount >= 0

\* C13: percent voucher.  Right after creation the stored discount of a
\* percent voucher is min(subtotal x discountValue / 100, maxDiscount), an
\* unset maxDiscount meaning no cap and any set one, 0 included, being the cap.
C13_PercentDiscountCapped ==
    (/\ orderResp = OrderReply("create", "ok")
     /\ order.exists
     /\ order.voucher.discountType = "percent"
     /\ order.voucher.discountValue # 0)
      => LET percent == (order.subtotal * order.voucher.discountValue) \div 100
         IN  order.discount =
                IF order.voucher.maxDiscount = NoMax THEN percent
                ELSE Min(percent, order.voucher.maxDiscount)

\* C14: voucher minimum order.  No stored reservation carries a voucher
\* whose minOrderValue is greater than the reservation's subtotal.
C14_VoucherMinimumOrderMet ==
    order.exists => order.voucher.minOrderValue <= order.subtotal

---------------------------------------------------------------------------
(* Schedule controller: delete and update *)

\* The showtime under which reservations name a schedule
ShowtimeOf == [i \in SchedIds |-> IF i = 1 THEN "S1" ELSE "S2"]

\* C15: deleteSchedule guard.  deleteSchedule on a stored schedule that no
\* non-cancelled reservation references removes the schedule.
C15_DeleteRemovesUnreferenced ==
    [][ \A id \in SchedIds :
          (/\ schedResp' # schedResp
           /\ schedResp'.op = "deleteSchedule"
           /\ schedResp'.id = id
           /\ schedules[id].exists
           /\ \A j \in DocIds :
                 ~(docs[j].exists /\ docs[j].status # "cancelled"
                      /\ docs[j].showtime = ShowtimeOf[id]))
            => ~schedules'[id].exists
      ]_vars

\* C16: the conflict check of updateSchedule excludes the schedule itself.
\* An update that carries start, end or room answers the conflict error
\* exactly when another schedule of the target room overlaps the resulting
\* interval, and then stores nothing; otherwise it stores the interval,
\* whatever the schedule's own previous interval was.
C16_UpdateExcludesSelf ==
    [][ (schedResp'.op = "updateSchedule" /\ schedules[schedResp'.id].exists) =>
          \A body \in UpdateBodies :
              (/\ body.has \cap {"startTime", "endTime", "roomId"} # {}
               /\ updateSchedule(schedResp'.id, body))
                => LET id == schedResp'.id
                       start == Given(body, "startTime", schedules[id].startTime)
                       end == Given(body, "endTime", schedules[id].endTime)
                       room == Given(body, "roomId", schedules[id].room)
                       hitOther == \E j \in SchedIds \ {id} :
                                       /\ schedules[j].exists
                                       /\ schedules[j].room = room
                                       /\ schedules[j].startTime < end
                                       /\ schedules[j].endTime > start
                   IN  /\ hitOther => (schedResp'.status = 400 /\ schedules' = schedules)
                       /\ ~hitOther => /\ schedResp'.status = 200
                                       /\ schedules'[id].startTime = start
                                       /\ schedules'[id].endTime = end
      ]_vars

\* An update was just accepted whose new interval differs from and overlaps
\* the interval the schedule had before, with another schedule in its room.
C16_SelfOverlapAccepted ==
    /\ schedResp.op = "updateSchedule"
    /\ schedResp.status = 200
    /\ schedSeen.exists
    /\ LET new == schedules[schedResp.id]
       IN  /\ <<new.startTime, new.endTime>> # <<schedSeen.startTime, schedSeen.endTime>>
           /\ new.startTime < schedSeen.endTime
           /\ new.endTime > schedSeen.startTime
           /\ schedSeen.startTime < schedSeen.endTime
           /\ \E j \in SchedIds \ {schedResp.id} :
                 schedules[j].exists /\ schedules[j].room = new.room

\* C17: free time slots.  For every room and duration d, the slots returned
\* are exactly the candidates [s, s+d), s on the 30-minute grid from the
\* opening time with s+d <= closing time, that intersect no schedule of the
\* room under the half-open test slot.start < show.end /\ slot.end > show.start.
C17_FreeSlotsExact ==
    \A roomId \in Rooms, d \in Durations :
        getAvailableTimeSlots(roomId, d) =
            {slot \in {[start |-> s, end |-> s + d] :
                          s \in {x \in OpenSlot..CloseSlot :
                                    x < CloseSlot /\ x + d <= CloseSlot}} :
                \A i \in SchedIds :
                    (schedules[i].exists /\ schedules[i].room = roomId)
                      => ~(slot.start < schedules[i].endTime
                             /\ slot.end > schedules[i].startTime)}

---------------------------------------------------------------------------
(* Availability reads and cancel *)

\* The seats of a showtime held by an active reservation
ActiveSeats(showtimeId) ==
    UNION {docs[i].seats : i \in {j \in DocIds :
              Active(docs[j]) /\ docs[j].showtime = showtimeId}}

\* C18: availability reads count pending and confirmed.  For every showtime
\* each read reports a seat unavailable exactly when an active (pending and
\* unexpired, or confirmed) reservation of the showtime holds it, a seat
\* held only by cancelled or expired reservations being free; the count read
\* reports no more seats than those no active reservation holds.
C18_ReadsCountActive ==
    \A s \in Showtimes :
        /\ \A c \in ActiveSeats(s) :
              c \notin bookingGetAvailableSeats(s) /\ c \notin roomGetAvailableSeats(s)
        /\ \A c \in SeatCodes :
              (\A i \in DocIds :
                  (docs[i].exists /\ docs[i].showtime = s /\ c \in docs[i].seats)
                     => docs[i].status \in {"cancelled", "expired"})
                => (c \in bookingGetAvailableSeats(s) /\ c \in roomGetAvailableSeats(s))
        /\ movieAvailableSeats(s) <= Cardinality(SeatCodes \ ActiveSeats(s))

\* C19: unswept expired holds read as free.  A seat whose only reservations
\* on a showtime are pending with expiresAt passed is reported free by
\* Booking.getAvailableSeats, and such reservations take nothing from the
\* count of getMovieAvailability.
C19_LapsedHoldReadsFree ==
    \A s \in Showtimes :
        /\ \A c \in SeatCodes :
              (/\ \E i \in DocIds :
                     docs[i].exists /\ docs[i].showtime = s /\ c \in docs[i].seats
               /\ \A i \in DocIds :
                     (docs[i].exists /\ docs[i].showtime = s /\ c \in docs[i].seats)
                        => LapsedPending(docs[i]))
                => c \in bookingGetAvailableSeats(s)
        /\ (\A i \in DocIds :
               (docs[i].exists /\ docs[i].showtime = s) => LapsedPending(docs[i]))
             => movieAvailableSeats(s) = Cardinality(SeatCodes)

\* C20: cancel records the refund.  A cancel that succeeds on a reservation
\* still in the state the handler read stores status cancelled with
\* cancelledBy, cancelledAt and cancellationReason set; payment.status
\* becomes refunded if it was completed and is left as it was otherwise.
C20_CancelRecordsRefund ==
    [][ \A p \in Procs :
          (/\ pc[p] = "saving"
           /\ pc'[p] = "idle"
           /\ docs[loaded[p].id].exists
           /\ docs[loaded[p].id].status = loaded[p].seen)
            => LET old == docs[loaded[p].id]
                   new == docs'[loaded[p].id]
               IN  /\ new.status = "cancelled"
                   /\ new.cancelledBy # NoUser
                   /\ new.cancelledAt # NoTime
                   /\ new.cancellationReason # NoReason
                   /\ new.payStatus = IF old.payStatus = "completed"
                                      THEN "refunded" ELSE old.payStatus
      ]_vars


\* C21: cancel releases seats.  Once a reservation has been cancelled, each
\* of its seats that no other active reservation of the showtime holds is
\* reported available by the seat reads, and a new reservation-creation
\* request for that seat on that showtime is accepted.
C21_CancelReleasesSeats ==
    \A i \in DocIds :
        (docs[i].exists /\ docs[i].status = "cancelled" /\ docs[i].cancelledBy # NoUser)
          => \A c \in docs[i].seats \ ActiveSeats(docs[i].showtime) :
                /\ c \in bookingGetAvailableSeats(docs[i].showtime)
                /\ c \in roomGetAvailableSeats(docs[i].showtime)
                /\ ~SeatIndexRejects(nextId,
                                     NewDoc("Ticket", docs[i].showtime, {c}, nextId))


---------------------------------------------------------------------------
(* Expiry *)

\* C22: eventual expiry.  Every reservation that is still pending when its
\* expiresAt passes eventually, the expiry mechanisms being fair, is stored
\* with status expired.
C22_EventuallyExpired ==
    \A i \in DocIds :
        LapsedPending(docs[i]) ~> (docs[i].exists /\ docs[i].status = "expired")


\* C23: expiry is idempotent.  A run of an expiry mechanism (expireStale, or
\* the TTL monitor) leaves no pending reservation past its expiresAt behind,
\* and a run that finds no such reservation changes nothing: so a second run
\* at the same time leaves the reservations and their statuses as the first
\* run left them.
C23_ExpiryIdempotent ==
    [][ /\ ExpireStale =>
              \A i \in DocIds :
                  ~(docs'[i].exists /\ docs'[i].status = "pending"
                        /\ docs'[i].expiresAt <= now')
        /\ ((ExpireStale \/ TTLDelete) /\ \A i \in DocIds : ~LapsedPending(docs[i]))
              => docs' = docs
      ]_vars


---------------------------------------------------------------------------
(* qrCode *)

\* C24: qrCode is unique and write-once.  No two stored reservations carry
\* the same assigned qrCode, and once a reservation's qrCode is assigned no
\* later save, cancel or other transition changes it.
C24_QrCodeUniqueWriteOnce ==
    /\ [](\A i, j \in DocIds :
             (i # j /\ docs[i].exists /\ docs[j].exists /\ docs[i].qrCode # NoQr)
               => docs[i].qrCode # docs[j].qrCode)
    /\ [][ \A i \in DocIds :
             (docs[i].exists /\ docs[i].qrCode # NoQr /\ docs'[i].exists)
               => docs'[i].qrCode = docs[i].qrCode ]_vars

\* Two reservations carry an assigned qrCode, one given at creation and one
\* given on confirmation, and both have since been cancelled.
C24_TwoCodesAfterCancel ==
    \E i, j \in DocIds :
        /\ docs[i].exists /\ docs[i].kind = "Ticket" /\ docs[i].qrCode # NoQr
        /\ docs[j].exists /\ docs[j].kind = "Booking" /\ docs[j].qrCode # NoQr
        /\ docs[i].status = "cancelled"
        /\ docs[j].status = "cancelled"


---------------------------------------------------------------------------
(* Schedule controller: requests that must fail, inactive schedules *)

\* C25: createSchedule rejects invalid intervals and missing references.  A
\* request whose start is not strictly before its end, or whose movie,
\* theater or room does not exist, or whose room is not of the given
\* theater, fails and stores no schedule.
C25_CreateRejectsInvalid ==
    [][ \A q \in CreateRequests :
          (/\ ExistingSchedules # SchedIds
           /\ createSchedule(q.movieId, q.theaterId, q.roomId,
                             q.startTime, q.endTime, q.price)
           /\ \/ ~(q.startTime < q.endTime)
              \/ ~RefsResolve(q.movieId, q.theaterId, q.roomId))
            => (schedResp'.status # 201 /\ schedules' = schedules)
      ]_vars


\* C26: only active schedules block.  A createSchedule request with valid
\* references whose interval overlaps, in its room, only schedules that have
\* been deactivated (isActive false) is accepted.
C26_InactiveDoesNotBlock ==
    [][ \A q \in CreateRequests :
          (/\ ExistingSchedules # SchedIds
           /\ createSchedule(q.movieId, q.theaterId, q.roomId,
                             q.startTime, q.endTime, q.price)
           /\ RefsResolve(q.movieId, q.theaterId, q.roomId)
           /\ q.startTime < q.endTime
           /\ \A i \in ExistingSchedules :
                 (/\ schedules[i].room = q.roomId
                  /\ schedules[i].startTime < q.endTime
                  /\ schedules[i].endTime > q.startTime)
                   => ~schedules[i].isActive)
            => schedResp'.status = 201
      ]_vars


\* C27: schedule non-overlap under concurrency.  With createSchedule and
\* updateSchedule requests for one room in flight together, the conflict
\* query and the write of each being separate steps, no two stored
\* schedules of the room have overlapping intervals [startTime, endTime).
C27_NoRoomOverlapConcurrent ==
    \A i \in SchedIds, j \in SchedIds :
        (/\ i < j
         /\ schedules[i].exists
         /\ schedules[j].exists
         /\ schedules[i].room = schedules[j].room)
          => \/ schedules[i].endTime <= schedules[j].startTime
             \/ schedules[j].endTime <= schedules[i].startTime


---------------------------------------------------------------------------
(* Pricing: the discount *)

---------------------------------------------------------------------------
(* Room *)

\* C29: seat layout well-formedness.  After a save that generated the seat
\* map, the room holds exactly rows x seatsPerRow seats with pairwise
\* distinct codes, its capacity is that count, and exactly the seats of the
\* first two rows are vip.
C29_SeatMapWellFormed ==
    (/\ roomDoc.exists
     /\ roomResp.result = "ok"
     /\ roomResp.op = "create" \/ roomResp.modified \cap {"rows", "seatsPerRow"} # {})
      => /\ Len(roomDoc.seats) = roomDoc.rows * roomDoc.seatsPerRow
         /\ \A i, j \in 1..Len(roomDoc.seats) :
               i # j => roomDoc.seats[i].code # roomDoc.seats[j].code
         /\ roomDoc.capacity = Len(roomDoc.seats)
         /\ \A i \in 1..Len(roomDoc.seats) :
               (roomDoc.seats[i].type = "vip") <=> (roomDoc.seats[i].row < 2)


---------------------------------------------------------------------------
(* Schedule controller: what an update leaves alone *)

\* C30: updateSchedule frame.  A step of updateSchedule changes at most
\* startTime, endTime, price and isActive of the addressed schedule: it keeps
\* that schedule's movie, theater and room, whatever the body carries, and
\* leaves every other schedule and every reservation, with its seat prices
\* and totals, as they were.
C30_UpdateFrame ==
    [][ (/\ schedResp'.op = "updateSchedule"
         /\ <<schedules, schedResp, schedSeen>>' # <<schedules, schedResp, schedSeen>>)
          => LET id == schedResp'.id
             IN  /\ \A i \in SchedIds \ {id} : schedules'[i] = schedules[i]
                 /\ schedules'[id].exists = schedules[id].exists
                 /\ schedules[id].exists =>
                       /\ schedules'[id].movie = schedules[id].movie
                       /\ schedules'[id].theater = schedules[id].theater
                       /\ schedules'[id].room = schedules[id].room
                 /\ docs' = docs
                 /\ order' = order
      ]_vars

\* An update was just accepted that moved the schedule's interval onto
\* another schedule of its own room, which only a body naming a different
\* room brings about, while a ticket and a priced reservation are stored.
C30_UpdateWithOtherRoomAccepted ==
    /\ schedResp.op = "updateSchedule"
    /\ schedResp.status = 200
    /\ schedSeen.exists
    /\ \E j \in ExistingSchedules \ {schedResp.id} :
          /\ schedules[j].room = schedules[schedResp.id].room
          /\ ~Overlapping(schedSeen, schedules[j])
          /\ Overlapping(schedules[schedResp.id], schedules[j])
    /\ docs[1].exists
    /\ order.exists

=============================================================================
